---- MODULE Spec2Model ----
(***************************************************************************)
(* A model of manager.py: the worker that takes code-execution jobs from   *)
(* the intake queue (callback), runs every test case in a sandbox          *)
(* (execute_user_code, run_test_case), reports the verdict (requests.put,  *)
(* send_results_to_submission_service) and acknowledges the job.           *)
(*                                                                         *)
(* Every worker process runs the same code; its locals are the per-worker  *)
(* variables below.  Workers share the working directory (files), the      *)
(* Docker daemon (containers) and nothing else.                            *)
(*                                                                         *)
(* What the libraries do is modelled from their documented behaviour:      *)
(*   - containers.run(detach=True) returns a handle or raises              *)
(*     (ImageNotFound / APIError); it never raises ContainerError;         *)
(*   - container.wait(timeout=1) returns the exit status when the process  *)
(*     has exited within the poll interval and raises ReadTimeout when it  *)
(*     has not;                                                            *)
(*   - container.kill() of a container that has already exited is refused  *)
(*     by the daemon (APIError); the model lets the call either raise or   *)
(*     return, so both the raising path and the return of line 115 are     *)
(*     covered;                                                            *)
(*   - container.logs() returns the output or raises APIError;             *)
(*   - container.remove(force=True) and os.remove succeed;                 *)
(*   - uuid.uuid4() never returns a value it returned before; names are    *)
(*     only compared, so which new value it returns makes no difference    *)
(*     and the model hands out the least unused one.                       *)
(*                                                                         *)
(* Texts (the logs, the messages of run_test_case, the result of           *)
(* execute_user_code) are sequences of characters, and the str methods and *)
(* float() the code applies to them are operators on such sequences.       *)
(* Evaluate (lines 118-138) and InputAssignments (lines 38-42) are also    *)
(* studied on their own, on sample arguments (SpecEval, SpecBind).         *)
(***************************************************************************)
EXTENDS Integers, Sequences, FiniteSets, TLC

\* ------------------------------------------------------------------ bounds

\* Number of worker processes.
NWorkers == 2

\* Longest test-case sequence of a job.
MaxTests == 3

\* Number of distinct values uuid4 can still hand out: caps the number of
\* test-case attempts of a run.
MaxIds == 3

\* Longest first output line and longest input string of the calls of
\* Evaluate and InputAssignments that are studied on their own.
MaxLen == 3

\* ------------------------------------------------------- program constants

\* CONTAINER_TIMEOUT = 10 (manager.py line 15)
CONTAINER_TIMEOUT == 10

\* container.wait(timeout=1) (manager.py line 107)
PollInterval == 1

\* ------------------------------------------------------------------ values

Workers == 1..NWorkers

Ids == 1..MaxIds

\* What the submitted code does in the sandbox on the inputs of a test case:
\*   pass      exits 0 within the first poll, first output line = expected,
\*             with the "Execution Time:" line
\*   mismatch  exits 0 within the first poll, first output line # expected,
\*             with the "Execution Time:" line
\*   nomarker  exits 0 within the first poll, a first line but no
\*             "Execution Time:" line
\*   empty     exits 0 within the first poll with no output at all
\*   crash     exits with a non-zero status within the first poll
\*   slow      exits 0 with the expected output, later than one poll interval
\*             and before the ceiling
\*   hang      never exits
\*   marked    as mismatch, for a test case whose expected output is a text
\*             that holds "Execution Time:"
Behaviours ==
    {"pass", "mismatch", "nomarker", "empty", "crash", "slow", "hang", "marked"}

\* A test case of a message: whether it has the keys 'inputs' and
\* 'expected_output', and what the code does on it.
Case(i, e, b) == [hasInputs |-> i, hasExpected |-> e, behav |-> b]

GoodCases == {Case(TRUE, TRUE, b) : b \in Behaviours}

BadCases == {Case(FALSE, TRUE, "pass"), Case(TRUE, FALSE, "pass")}

SeqsUpTo(S, n) == UNION {[1..k -> S] : k \in 0..n}

\* A message body: json is "invalid" (not JSON), "nonobject" (JSON, but not
\* an object) or "object"; the has* fields say which keys the object has.
Message(j, c, ci, si, ht, t) ==
    [json |-> j, hasCode |-> c, hasClientId |-> ci, hasSessionId |-> si,
     hasTests |-> ht, tests |-> t]

NoMsg == Message("none", FALSE, FALSE, FALSE, FALSE, <<>>)

\* The test-case sequences of the well-formed jobs: any behaviour up to and
\* at the first test case that does not pass, passes and mismatches after it.
JobTests ==
    {t \in SeqsUpTo(GoodCases, MaxTests) :
        \A i, j \in DOMAIN t :
            (i < j /\ t[i].behav # "pass") => t[j].behav \in {"pass", "mismatch"}}

WellFormedMessages ==
    {Message("object", TRUE, TRUE, TRUE, TRUE, t) : t \in JobTests}

SmallTests == SeqsUpTo({Case(TRUE, TRUE, "pass"), Case(TRUE, TRUE, "mismatch")}, 1)

MalformedMessages ==
    {Message("invalid", FALSE, FALSE, FALSE, FALSE, <<>>),
     Message("nonobject", FALSE, FALSE, FALSE, FALSE, <<>>),
     Message("object", TRUE, TRUE, TRUE, FALSE, <<>>)}
    \cup {Message("object", FALSE, TRUE, TRUE, TRUE, t) : t \in SmallTests}
    \cup {Message("object", TRUE, FALSE, TRUE, TRUE, t) : t \in SmallTests}
    \cup {Message("object", TRUE, TRUE, FALSE, TRUE, t) : t \in SmallTests}
    \cup {Message("object", TRUE, TRUE, TRUE, TRUE, t) :
            t \in {s \in SeqsUpTo(BadCases \cup {Case(TRUE, TRUE, "pass")}, 2) :
                     \E i \in DOMAIN s : s[i] \in BadCases}}

Messages == WellFormedMessages \cup MalformedMessages

\* The jobs of the concurrent specification: two test cases, the second run
\* when the first passes.
ShortMessages ==
    {Message("object", TRUE, TRUE, TRUE, TRUE, t) :
        t \in {<<Case(TRUE, TRUE, "pass"), Case(TRUE, TRUE, "pass")>>,
                <<Case(TRUE, TRUE, "hang"), Case(TRUE, TRUE, "pass")>>}}

\* Names: container_name = f"container_{uuid.uuid4().hex}" and
\* script_filename = f"script_{container_name}.py".
NoName == <<>>

ContainerName(u) == <<"container_", u>>

\* Mutant of ScriptFilename: the file name does not carry the uuid.
ScriptFilenameFixed(cn) == <<"script_", <<"container_", 0>>, ".py">>

ScriptFilename(cn) == <<"script_", cn, ".py">>

\* The local container of run_test_case: without a value until containers.run
\* has returned, then the handle of the container the daemon created.
UnboundContainer == [bound |-> FALSE, id |-> 0]

Handle(c) == [bound |-> TRUE, id |-> c]

\* ----------------------------------------------------------- Python values

\* A str is the sequence of its characters.  The characters str.strip()
\* removes, of those the model's texts hold.
Whitespace == {" ", "\n", "\t"}

RECURSIVE lstrip(_)
lstrip(s) == IF s # <<>> /\ Head(s) \in Whitespace THEN lstrip(Tail(s)) ELSE s

RECURSIVE rstrip(_)
rstrip(s) ==
    IF s # <<>> /\ s[Len(s)] \in Whitespace THEN rstrip(SubSeq(s, 1, Len(s) - 1)) ELSE s

\* str.strip()
strip(s) == rstrip(lstrip(s))

\* str.find(sub, start) for a sub that is not empty, counted from 1 (0: not
\* found)
RECURSIVE findFrom(_, _, _)
findFrom(s, sub, start) ==
    IF start + Len(sub) - 1 > Len(s) THEN 0
    ELSE IF s[start] = sub[1] /\ SubSeq(s, start, start + Len(sub) - 1) = sub THEN start
    ELSE findFrom(s, sub, start + 1)

\* str.find(sub)
find(s, sub) == findFrom(s, sub, 1)

\* sub in s
In(sub, s) == find(s, sub) # 0

\* str.startswith(prefix)
startswith(s, prefix) == Len(s) >= Len(prefix) /\ SubSeq(s, 1, Len(prefix)) = prefix

\* str.split(sep)
RECURSIVE split(_, _)
split(s, sep) ==
    LET i == find(s, sep) IN
    IF i = 0 THEN <<s>>
    ELSE <<SubSeq(s, 1, i - 1)>> \o split(SubSeq(s, i + Len(sep), Len(s)), sep)

\* str.splitlines(): the lines without their line ends; no last empty line.
splitlines(s) ==
    LET p == split(s, <<"\n">>) IN
    IF p[Len(p)] = <<>> THEN SubSeq(p, 1, Len(p) - 1) ELSE p

\* sep.join(parts)
RECURSIVE join(_, _)
join(sep, parts) ==
    IF parts = <<>> THEN <<>>
    ELSE IF Len(parts) = 1 THEN parts[1]
    ELSE parts[1] \o sep \o join(sep, Tail(parts))

DigitChars == <<"0", "1", "2", "3", "4", "5", "6", "7", "8", "9">>

IsDigit(c) == \E d \in 1..10 : DigitChars[d] = c

DigitValue(c) == (CHOOSE d \in 1..10 : DigitChars[d] = c) - 1

\* The decimal numeral of a natural number.
RECURSIVE decimal(_)
decimal(n) ==
    IF n < 10 THEN <<DigitChars[n + 1]>> ELSE decimal(n \div 10) \o <<DigitChars[(n % 10) + 1]>>

\* The number a sequence of digits denotes.
RECURSIVE number(_)
number(ds) == IF ds = <<>> THEN 0 ELSE 10 * number(SubSeq(ds, 1, Len(ds) - 1)) + DigitValue(ds[Len(ds)])

\* The values json.loads yields: str, int, float (whole part n and the digits
\* f after the point), list (of int), bool and None.
PyStr(s) == [type |-> "str", s |-> s, n |-> 0, f |-> <<>>]

PyInt(n) == [type |-> "int", s |-> <<>>, n |-> n, f |-> <<>>]

PyFloat(n, f) == [type |-> "float", s |-> <<>>, n |-> n, f |-> f]

PyList(ns) == [type |-> "list", s |-> <<>>, n |-> 0, f |-> ns]

PyBool(b) == [type |-> "bool", s |-> <<>>, n |-> IF b THEN 1 ELSE 0, f |-> <<>>]

PyNone == [type |-> "NoneType", s |-> <<>>, n |-> 0, f |-> <<>>]

\* str(v), which is also what an f-string puts for {v}
str(v) ==
    CASE v.type = "str" -> v.s
      [] v.type = "int" -> decimal(v.n)
      [] v.type = "float" -> decimal(v.n) \o <<".">> \o v.f
      [] v.type = "list" ->
            <<"[">> \o join(<<",", " ">>, [i \in DOMAIN v.f |-> decimal(v.f[i])]) \o <<"]">>
      [] v.type = "bool" -> IF v.n = 1 THEN <<"T", "r", "u", "e">> ELSE <<"F", "a", "l", "s", "e">>
      [] OTHER -> <<"N", "o", "n", "e">>

\* The text float() parses: digits, with single underscores between digits.
IsDigitPart(s) ==
    /\ s # <<>>
    /\ IsDigit(s[1])
    /\ IsDigit(s[Len(s)])
    /\ \A i \in 1..Len(s) : IsDigit(s[i]) \/ (s[i] = "_" /\ IsDigit(s[i - 1]) /\ IsDigit(s[i + 1]))

Unsigned(s) == IF s # <<>> /\ Head(s) \in {"+", "-"} THEN Tail(s) ELSE s

IsMantissa(m) ==
    LET p == split(m, <<".">>) IN
    \/ Len(p) = 1 /\ IsDigitPart(p[1])
    \/ /\ Len(p) = 2
       /\ p[1] = <<>> \/ IsDigitPart(p[1])
       /\ p[2] = <<>> \/ IsDigitPart(p[2])
       /\ p[1] # <<>> \/ p[2] # <<>>

IsDecimalLiteral(u) ==
    LET p == split(u, <<"e">>) IN
    \/ Len(p) = 1 /\ IsMantissa(p[1])
    \/ Len(p) = 2 /\ IsMantissa(p[1]) /\ IsDigitPart(Unsigned(p[2]))

\* float(s) of a str: whether it returns (it raises ValueError otherwise) and
\* the float, as a count of 10^-5 (the harness prints five decimals).  float
\* strips white space and takes a sign, then a decimal literal or one of the
\* words inf, infinity and nan (in the lower case of the model's texts); the
\* value of words, exponents and further decimals is not used.
float(s) ==
    LET u == Unsigned(strip(s))
        p == split(u, <<".">>)
        plain == /\ IsMantissa(u)
                 /\ \A i \in 1..Len(u) : u[i] # "_"
        frac == IF Len(p) = 2 THEN p[2] ELSE <<>>
        five == SubSeq(frac \o <<"0", "0", "0", "0", "0">>, 1, 5) IN
    [ok |-> u \in {<<"i", "n", "f">>, <<"i", "n", "f", "i", "n", "i", "t", "y">>, <<"n", "a", "n">>} \/ IsDecimalLiteral(u),
     value |-> IF plain THEN number(p[1]) * 100000 + number(five) ELSE 0]

\* The texts of the source.
ExecutionTimeMarker == <<"E", "x", "e", "c", "u", "t", "i", "o", "n", " ", "T", "i", "m", "e", ":">>

AllPassedPrefix == <<"A", "l", "l", " ", "t", "e", "s", "t", " ", "c", "a", "s", "e", "s", " ", "p", "a", "s", "s", "e", "d", "!">>

\* The local execution_time of callback: without a value, None, or the float
\* parsed from the result text (ms: its count of 10^-5 ms).
UnboundTime == [bound |-> FALSE, none |-> FALSE, ms |-> 0]

NoneTime == [bound |-> TRUE, none |-> TRUE, ms |-> 0]

Millis(v) == [bound |-> TRUE, none |-> FALSE, ms |-> v]

\* run_test_case's return value: (passed, message), message being the text.
\* With it the model keeps what kind of message it is
\*   "time"      f"Execution Time: {execution_time}"
\*   "mismatch"  f"Expected: ..., but got: ... (Execution Time: {execution_time})"
\*   "timeout"   f"Timeout on test case with input: {test_case_inputs}"
\*   "error"     f"Error during execution: {error_message}"
\* and the attempt whose sandbox measured execution_time (0: none).
Ret(p, k, t, x) == [passed |-> p, kind |-> k, time |-> t, text |-> x]

NoRet == Ret(FALSE, "none", 0, <<>>)

\* execute_user_code's return value, the text
\* f"All test cases passed! {message}" (line 170) or
\* f"Test case {index} failed: {message}" (line 167); with it the model
\* keeps which of the two it is ("allpassed", "failed"), the index and the
\* message.
Result(v, i, m) ==
    [verdict |-> v, index |-> i, msg |-> m,
     text |-> IF v = "allpassed" THEN AllPassedPrefix \o <<" ">> \o m.text
              ELSE IF v = "failed"
                THEN <<"T", "e", "s", "t", " ", "c", "a", "s", "e", " ">> \o decimal(i) \o <<" ", "f", "a", "i", "l", "e", "d", ":", " ">> \o m.text
              ELSE <<>>]

NoResult == Result("none", 0, NoRet)

\* "Execution Time:" in result (line 199)
HasTimeMarker(r) == In(ExecutionTimeMarker, r.text)

VARIABLES
    pc,              \* where each worker is in its code
    msg,             \* the message delivered to callback
    index,           \* execute_user_code: index of the test case
    uid,             \* run_test_case: the uuid4 drawn for the attempt (0: none)
    script,          \* run_test_case: script_filename
    container,       \* run_test_case: the local container
    clock,           \* run_test_case: time.perf_counter() - start_time
    exc,             \* the exception being propagated ("none" when none)
    ret,             \* the value run_test_case returns
    message,         \* execute_user_code: the local message (NoRet: no value yet)
    result,          \* callback: the local result
    passed,          \* callback: the local passed
    execution_time,  \* callback: the local execution_time
    files,           \* the working directory: script files, each with its writer
    containers,      \* the Docker daemon: the containers that exist
    created,         \* the Docker daemon: the number of containers created
    used,            \* the values uuid4 has returned
    names,           \* the script file names attempts have used
    nattempts,       \* the number of attempts started by all workers
    obs,             \* per worker, what the job has done so far
    call             \* one call of a pure function: its arguments and its value

vars == <<pc, msg, index, uid, script, container, clock, exc, ret, message, result,
          passed, execution_time, files, containers, created, used, names, nattempts, obs,
          call>>

\* obs: what the job has done so far
\*   acks       basic_ack calls for the message
\*   attempts   run_test_case calls
\*   launches   containers.run calls
\*   sandboxes  containers the calls created
\*   kills      container.kill calls of the current attempt
\*   reads      container.logs calls of the current attempt
\*   puts       requests.put calls
\*   posts      requests.post calls
\*   putResult  how requests.put ended ("none", "ok" or "failed")
\*   postResult how requests.post ended ("none", "ok" or "failed")
\*   infra      an infrastructure call failed (containers.run or logs raised)
\*   escaped    the exception run_test_case ended with ("none": it returned)
Obs0 ==
    [acks |-> 0, attempts |-> 0, launches |-> 0, sandboxes |-> 0, kills |-> 0, reads |-> 0,
     puts |-> 0, posts |-> 0, putResult |-> "none", postResult |-> "none",
     infra |-> FALSE, escaped |-> "none"]

\* Every worker waits for a message; nothing has been created.
WorkersIdle ==
    /\ pc = [w \in Workers |-> "idle"]
    /\ msg = [w \in Workers |-> NoMsg]
    /\ index = [w \in Workers |-> 0]
    /\ uid = [w \in Workers |-> 0]
    /\ script = [w \in Workers |-> NoName]
    /\ container = [w \in Workers |-> UnboundContainer]
    /\ clock = [w \in Workers |-> 0]
    /\ exc = [w \in Workers |-> "none"]
    /\ ret = [w \in Workers |-> NoRet]
    /\ message = [w \in Workers |-> NoRet]
    /\ result = [w \in Workers |-> NoResult]
    /\ passed = [w \in Workers |-> FALSE]
    /\ execution_time = [w \in Workers |-> UnboundTime]
    /\ files = {}
    /\ containers = {}
    /\ created = 0
    /\ used = {}
    /\ names = {}
    /\ nattempts = 0
    /\ obs = [w \in Workers |-> Obs0]

\* No call of a pure function is under study.
NoCall == [fn |-> "none"]

Init == WorkersIdle /\ call = NoCall

shared == <<files, containers, created, used, names, nattempts>>

workerVars == <<pc, msg, index, uid, script, container, clock, exc, ret, message,
                result, passed, execution_time, files, containers, created, used, names,
                nattempts, obs>>

rtcLocals == <<uid, script, container, clock, ret>>

cbLocals == <<result, passed, execution_time>>

\* start_consuming hands a message to callback (lines 264, 268).
Deliver(w, M) ==
    /\ pc[w] = "idle"
    /\ \E m \in M : msg' = [msg EXCEPT ![w] = m]
    /\ pc' = [pc EXCEPT ![w] = "cb_parse"]
    /\ UNCHANGED <<call, index, rtcLocals, exc, message, cbLocals, shared, obs>>

\* callback has returned to start_consuming (line 268): its locals are gone
\* and the worker waits for the next message.
Consume(w) ==
    /\ pc[w] = "returned"
    /\ pc' = [pc EXCEPT ![w] = "idle"]
    /\ msg' = [msg EXCEPT ![w] = NoMsg]
    /\ index' = [index EXCEPT ![w] = 0]
    /\ uid' = [uid EXCEPT ![w] = 0]
    /\ script' = [script EXCEPT ![w] = NoName]
    /\ container' = [container EXCEPT ![w] = UnboundContainer]
    /\ clock' = [clock EXCEPT ![w] = 0]
    /\ exc' = [exc EXCEPT ![w] = "none"]
    /\ ret' = [ret EXCEPT ![w] = NoRet]
    /\ message' = [message EXCEPT ![w] = NoRet]
    /\ result' = [result EXCEPT ![w] = NoResult]
    /\ passed' = [passed EXCEPT ![w] = FALSE]
    /\ execution_time' = [execution_time EXCEPT ![w] = UnboundTime]
    /\ obs' = [obs EXCEPT ![w] = Obs0]
    /\ UNCHANGED <<shared, call>>

\* callback lines 175-187: json.loads raises JSONDecodeError on a body that is
\* not JSON; message.get raises AttributeError on a value that is no object;
\* every key is read with .get and a default, so a missing key raises nothing.
ParseMessage(w) ==
    /\ pc[w] = "cb_parse"
    /\ IF msg[w].json = "invalid"
         THEN /\ exc' = [exc EXCEPT ![w] = "JSONDecodeError"]
              /\ pc' = [pc EXCEPT ![w] = "cb_finally"]
       ELSE IF msg[w].json = "nonobject"
         THEN /\ exc' = [exc EXCEPT ![w] = "AttributeError"]
              /\ pc' = [pc EXCEPT ![w] = "cb_finally"]
       ELSE /\ exc' = exc
            /\ pc' = [pc EXCEPT ![w] = "exec_loop"]
    /\ UNCHANGED <<call, msg, index, rtcLocals, message, cbLocals, shared, obs>>

\* The test case execute_user_code is at.
CurrentCase(w) == msg[w].tests[index[w]]

\* execute_user_code lines 156-163 and 169-170: the next test case is taken
\* (test_case['inputs'] and test_case['expected_output'] raise KeyError when
\* the key is missing) and run_test_case is called; after the last one the
\* verdict is built from the local message, which has no value when no test
\* case ran.
ExecLoop(w) ==
    /\ pc[w] = "exec_loop"
    /\ IF index[w] < Len(msg[w].tests)
         THEN LET tc == msg[w].tests[index[w] + 1] IN
              /\ index' = [index EXCEPT ![w] = @ + 1]
              /\ IF ~tc.hasInputs \/ ~tc.hasExpected
                   THEN /\ exc' = [exc EXCEPT ![w] = "KeyError"]
                        /\ pc' = [pc EXCEPT ![w] = "cb_finally"]
                        /\ obs' = obs
                   ELSE /\ exc' = exc
                        /\ pc' = [pc EXCEPT ![w] = "rtc_begin"]
                        /\ obs' = [obs EXCEPT ![w].attempts = @ + 1]
              /\ result' = result
       ELSE IF message[w] = NoRet
         THEN /\ exc' = [exc EXCEPT ![w] = "UnboundLocalError"]
              /\ pc' = [pc EXCEPT ![w] = "cb_finally"]
              /\ UNCHANGED <<index, result, obs>>
       ELSE /\ result' = [result EXCEPT ![w] = Result("allpassed", 0, message[w])]
            /\ pc' = [pc EXCEPT ![w] = "cb_verdict"]
            /\ UNCHANGED <<index, exc, obs>>
    /\ UNCHANGED <<call, msg, rtcLocals, message, passed, execution_time, shared>>

\* is_number (lines 29-34): float(s) returns.
is_number(s) == float(s).ok

\* input_assignments (lines 38-42): one line per input, "inputN = " and the
\* value as str() gives it for an int (a bool is one), a float, a list and a
\* str that is_number accepts, and between single quotes for any other value.
InputAssignments(test_case_inputs) ==
    join(<<"\n">>,
         [i \in DOMAIN test_case_inputs |->
            LET v == test_case_inputs[i] IN
            IF v.type \in {"int", "bool", "float", "list"} \/ (v.type = "str" /\ is_number(v.s))
              THEN <<"i", "n", "p", "u", "t">> \o decimal(i) \o <<" ", "=", " ">> \o str(v)
              ELSE <<"i", "n", "p", "u", "t">> \o decimal(i) \o <<" ", "=", " ", "'">> \o str(v) \o <<"'">>])

\* uuid.uuid4() (line 26): a value not returned before.
Uuid4(taken) == CHOOSE u \in Ids \ taken : \A v \in Ids \ taken : u <= v

\* run_test_case lines 26-88: the names are made from a new uuid4, the last
\* line of the code is taken (IndexError when the code has no line) and the
\* harness is written to script_filename, replacing a file of that name.
RtcBegin(w) ==
    /\ pc[w] = "rtc_begin"
    /\ Ids \ used # {}
    /\ LET u == Uuid4(used)
           fn == ScriptFilename(ContainerName(u)) IN
         /\ uid' = [uid EXCEPT ![w] = u]
         /\ used' = used \cup {u}
         /\ script' = [script EXCEPT ![w] = fn]
         /\ names' = names \cup {fn}
         /\ nattempts' = nattempts + 1
         /\ IF ~msg[w].hasCode
              THEN /\ exc' = [exc EXCEPT ![w] = "IndexError"]
                   /\ pc' = [pc EXCEPT ![w] = "cb_finally"]
                   /\ files' = files
              ELSE /\ exc' = exc
                   /\ pc' = [pc EXCEPT ![w] = "rtc_run"]
                   /\ files' = {f \in files : f.name # fn} \cup {[name |-> fn, by |-> u]}
    /\ container' = [container EXCEPT ![w] = UnboundContainer]
    /\ clock' = [clock EXCEPT ![w] = 0]
    /\ ret' = [ret EXCEPT ![w] = NoRet]
    /\ obs' = [obs EXCEPT ![w].kills = 0, ![w].reads = 0, ![w].escaped = "none"]
    /\ UNCHANGED <<call, msg, index, message, cbLocals, containers, created>>

\* run_test_case lines 91-105: client.containers.run(detach=True) creates and
\* starts a container and returns its handle, or raises and leaves the local
\* container without a value; start_time is taken.
RtcRun(w) ==
    /\ pc[w] = "rtc_run"
    /\ \/ /\ created' = created + 1
          /\ containers' = containers \cup {created + 1}
          /\ container' = [container EXCEPT ![w] = Handle(created + 1)]
          /\ pc' = [pc EXCEPT ![w] = "rtc_wait"]
          /\ obs' = [obs EXCEPT ![w].launches = @ + 1, ![w].sandboxes = @ + 1]
          /\ exc' = exc
       \/ /\ exc' = [exc EXCEPT ![w] = "APIError"]
          /\ pc' = [pc EXCEPT ![w] = "rtc_finally"]
          /\ obs' = [obs EXCEPT ![w].launches = @ + 1, ![w].infra = TRUE]
          /\ UNCHANGED <<created, containers, container>>
    /\ clock' = [clock EXCEPT ![w] = 0]
    /\ UNCHANGED <<call, msg, index, uid, script, ret, message, cbLocals, files, used,
                   names, nattempts>>

\* Whether the sandboxed process exits within one poll interval of its start.
ExitsWithinPoll(b) == b \notin {"slow", "hang"}

\* The exit status of the sandboxed process.
StatusCode(b) == IF b = "crash" THEN 1 ELSE 0

\* run_test_case lines 106-109: one turn of the wait loop.  wait(timeout=1)
\* returns the status of a container that has exited and raises ReadTimeout
\* after the poll interval otherwise; status 0 leaves the loop, any other
\* status polls again (at once: the clock may have ticked or not).
RtcWait(w) ==
    /\ pc[w] = "rtc_wait"
    /\ IF clock[w] < CONTAINER_TIMEOUT
         THEN IF ExitsWithinPoll(CurrentCase(w).behav)
                THEN IF StatusCode(CurrentCase(w).behav) = 0
                       THEN /\ pc' = [pc EXCEPT ![w] = "rtc_check"]
                            /\ UNCHANGED <<clock, exc>>
                       ELSE /\ clock' = [clock EXCEPT ![w] = @ + PollInterval]
                            /\ UNCHANGED <<pc, exc>>
                ELSE /\ clock' = [clock EXCEPT ![w] = @ + PollInterval]
                     /\ exc' = [exc EXCEPT ![w] = "ReadTimeout"]
                     /\ pc' = [pc EXCEPT ![w] = "rtc_finally"]
         ELSE /\ pc' = [pc EXCEPT ![w] = "rtc_check"]
              /\ UNCHANGED <<clock, exc>>
    /\ UNCHANGED <<call, msg, index, uid, script, container, ret, message, cbLocals,
                   shared, obs>>

\* The inputs and the expected output of the model's test cases.
Inputs == PyList(<<4>>)

ExpectedOutput(b) ==
    IF b = "marked" THEN PyStr(ExecutionTimeMarker \o <<" ", "9", " ", "m", "s">>) ELSE PyStr(<<"4">>)

\* f"Timeout on test case with input: {test_case_inputs}" (line 115)
TimeoutMessage(inputs) == <<"T", "i", "m", "e", "o", "u", "t", " ", "o", "n", " ", "t", "e", "s", "t", " ", "c", "a", "s", "e", " ", "w", "i", "t", "h", " ", "i", "n", "p", "u", "t", ":", " ">> \o str(inputs)

\* run_test_case lines 111-115: past the ceiling the container is killed and
\* the attempt returns the timeout failure; kill raises APIError when the
\* daemon refuses it.
RtcCheck(w) ==
    /\ pc[w] = "rtc_check"
    /\ IF clock[w] >= CONTAINER_TIMEOUT
         THEN /\ obs' = [obs EXCEPT ![w].kills = @ + 1]
              /\ pc' = [pc EXCEPT ![w] = "rtc_finally"]
              /\ \/ /\ ret' = [ret EXCEPT ![w] =
                              Ret(FALSE, "timeout", 0, TimeoutMessage(Inputs))]
                    /\ exc' = exc
                 \/ /\ exc' = [exc EXCEPT ![w] = "APIError"]
                    /\ ret' = ret
         ELSE /\ pc' = [pc EXCEPT ![w] = "rtc_eval"]
              /\ UNCHANGED <<obs, ret, exc>>
    /\ UNCHANGED <<call, msg, index, uid, script, container, clock, message, cbLocals, shared>>

\* What container.logs() returns when the process has exited: the two lines
\* of the harness (lines 78-79), print(result) and
\* print(f"Execution Time: {execution_time_ms:.5f} ms"); attempt t measures
\* t ms.
Logs(b, t) ==
    LET time == ExecutionTimeMarker \o <<" ">> \o decimal(t) \o <<".", "0", "0", "0", "0", "0", " ", "m", "s">> \o <<"\n">> IN
    CASE b \in {"pass", "slow"} -> <<"4", "\n">> \o time
      [] b \in {"mismatch", "marked"} -> <<"5", "\n">> \o time
      [] b = "nomarker" -> <<"4", "\n">>
      [] OTHER -> <<>>

\* run_test_case lines 118-138 on the logs of attempt t: the exception raised
\* ("none": none) and the value returned.  execution_time is assigned only
\* when a line holds the marker (line 125); output.splitlines()[0] raises
\* IndexError on empty output (line 129); both return statements format
\* execution_time (lines 136, 138).
Evaluate(logs, expected_output, t) ==
    LET output == strip(logs)
        lines == splitlines(output)
        execution_time_line == SelectSeq(lines, LAMBDA line : In(ExecutionTimeMarker, line))
        parts == split(execution_time_line[1], <<":">>)
        execution_time_str == strip(parts[Len(parts)])
        normalized_output == strip(lines[1])
        normalized_expected_output == strip(str(expected_output)) IN
    IF lines = <<>> THEN [exc |-> "IndexError", ret |-> NoRet]
    ELSE IF execution_time_line = <<>> THEN [exc |-> "UnboundLocalError", ret |-> NoRet]
    ELSE IF normalized_output = normalized_expected_output
      THEN [exc |-> "none",
            ret |-> Ret(TRUE, "time", t, ExecutionTimeMarker \o <<" ">> \o execution_time_str)]
    ELSE [exc |-> "none",
          ret |-> Ret(FALSE, "mismatch", t,
                      <<"E", "x", "p", "e", "c", "t", "e", "d", ":", " ", "'">> \o normalized_expected_output
                      \o <<"'", ",", " ", "b", "u", "t", " ", "g", "o", "t", ":", " ", "'">> \o normalized_output
                      \o <<"'", " ", "(">> \o ExecutionTimeMarker \o <<" ">> \o execution_time_str \o <<")">>)]

\* Evaluate on the logs of every behaviour and attempt.
Evaluations ==
    [b \in Behaviours |->
        [t \in 1..MaxTests |-> Evaluate(Logs(b, t), ExpectedOutput(b), t)]]

\* run_test_case lines 117-138: the logs are read (APIError when the daemon
\* fails) and evaluated.
RtcEval(w) ==
    /\ pc[w] = "rtc_eval"
    /\ pc' = [pc EXCEPT ![w] = "rtc_finally"]
    /\ \/ LET e == Evaluations[CurrentCase(w).behav][index[w]] IN
          /\ exc' = [exc EXCEPT ![w] = e.exc]
          /\ ret' = [ret EXCEPT ![w] = e.ret]
          /\ obs' = [obs EXCEPT ![w].reads = @ + 1]
       \/ /\ exc' = [exc EXCEPT ![w] = "APIError"]
          /\ ret' = ret
          /\ obs' = [obs EXCEPT ![w].reads = @ + 1, ![w].infra = TRUE]
    /\ UNCHANGED <<call, msg, index, uid, script, container, clock, message, cbLocals, shared>>

\* f"Error during execution: {error_message}" (line 143)
ErrorMessage == <<"E", "r", "r", "o", "r", " ", "d", "u", "r", "i", "n", "g", " ", "e", "x", "e", "c", "u", "t", "i", "o", "n", ":", " ">>

\* run_test_case lines 140-150: a ContainerError becomes the "Error during
\* execution" failure; the finally clause reads the local container
\* (UnboundLocalError when containers.run raised, and nothing is removed),
\* removes the container and the script file; then the attempt returns or the
\* exception goes on to the caller.  execute_user_code catches nothing, so it
\* reaches callback's handlers.
RtcFinally(w) ==
    /\ pc[w] = "rtc_finally"
    /\ LET handled == exc[w] = "ContainerError"
           pending == IF handled THEN "none" ELSE exc[w] IN
       /\ ret' = [ret EXCEPT ![w] = IF handled THEN Ret(FALSE, "error", 0, ErrorMessage) ELSE @]
       /\ IF ~container[w].bound
            THEN /\ exc' = [exc EXCEPT ![w] = "UnboundLocalError"]
                 /\ UNCHANGED <<containers, files>>
            ELSE /\ exc' = [exc EXCEPT ![w] = pending]
                 /\ containers' = containers \ {container[w].id}
                 /\ files' = {f \in files : f.name # script[w]}
    /\ pc' = [pc EXCEPT ![w] = IF exc'[w] = "none" THEN "exec_ret" ELSE "cb_finally"]
    /\ obs' = [obs EXCEPT ![w].escaped = exc'[w]]
    /\ UNCHANGED <<call, msg, index, uid, script, container, clock, message, cbLocals,
                   created, used, names, nattempts>>

\* execute_user_code lines 163-167: the first failing test case ends the job
\* with "Test case {index} failed: {message}".
ExecRet(w) ==
    /\ pc[w] = "exec_ret"
    /\ message' = [message EXCEPT ![w] = ret[w]]
    /\ IF ~ret[w].passed
         THEN /\ result' = [result EXCEPT ![w] = Result("failed", index[w], ret[w])]
              /\ pc' = [pc EXCEPT ![w] = "cb_verdict"]
         ELSE /\ result' = result
              /\ pc' = [pc EXCEPT ![w] = "exec_loop"]
    /\ UNCHANGED <<call, msg, index, rtcLocals, exc, passed, execution_time, shared, obs>>

\* Mutant of Verdict: a result text that holds an execution time counts as
\* passed.
VerdictPassedByTime(w) ==
    /\ pc[w] = "cb_verdict"
    /\ LET p == In(ExecutionTimeMarker, result[w].text)
           t0 == IF p THEN NoneTime ELSE UnboundTime
           f == float(strip(split(split(result[w].text, ExecutionTimeMarker)[2],
                                  <<"m", "s">>)[1]))
           t1 == IF HasTimeMarker(result[w])
                   THEN IF f.ok THEN Millis(f.value) ELSE NoneTime
                 ELSE t0 IN
       /\ passed' = [passed EXCEPT ![w] = p]
       /\ execution_time' = [execution_time EXCEPT ![w] = t1]
       /\ IF ~t1.bound
            THEN /\ exc' = [exc EXCEPT ![w] = "UnboundLocalError"]
                 /\ pc' = [pc EXCEPT ![w] = "cb_finally"]
            ELSE /\ exc' = exc
                 /\ pc' = [pc EXCEPT ![w] = "cb_put"]
    /\ UNCHANGED <<call, msg, index, rtcLocals, message, result, shared, obs>>

\* callback lines 192-214: passed and execution_time are taken from the
\* result text: passed is whether it starts with "All test cases passed!",
\* execution_time the float between the first "Execution Time:" and the next
\* "ms" (None when that is no float).  execution_time gets None only in the
\* "All test cases passed!" branch, so the payload raises UnboundLocalError
\* for a failure text without "Execution Time:".
Verdict(w) ==
    /\ pc[w] = "cb_verdict"
    /\ LET p == startswith(result[w].text, AllPassedPrefix)
           t0 == IF p THEN NoneTime ELSE UnboundTime
           f == float(strip(split(split(result[w].text, ExecutionTimeMarker)[2],
                                  <<"m", "s">>)[1]))
           t1 == IF HasTimeMarker(result[w])
                   THEN IF f.ok THEN Millis(f.value) ELSE NoneTime
                 ELSE t0 IN
       /\ passed' = [passed EXCEPT ![w] = p]
       /\ execution_time' = [execution_time EXCEPT ![w] = t1]
       /\ IF ~t1.bound
            THEN /\ exc' = [exc EXCEPT ![w] = "UnboundLocalError"]
                 /\ pc' = [pc EXCEPT ![w] = "cb_finally"]
            ELSE /\ exc' = exc
                 /\ pc' = [pc EXCEPT ![w] = "cb_put"]
    /\ UNCHANGED <<call, msg, index, rtcLocals, message, result, shared, obs>>

\* How an outward HTTP call can end.
HttpResults == {"ok", "bad_status", "exception"}

\* Mutant of PutSubmission: a failed call is not caught and ends the try
\* block of callback.
PutSubmissionUncaught(w) ==
    /\ pc[w] = "cb_put"
    /\ \E r \in HttpResults :
         /\ obs' = [obs EXCEPT ![w].puts = @ + 1,
                               ![w].putResult = IF r = "ok" THEN "ok" ELSE "failed"]
         /\ exc' = [exc EXCEPT ![w] = IF r = "ok" THEN @ ELSE "RequestException"]
         /\ pc' = [pc EXCEPT ![w] = IF r = "ok" THEN "cb_post" ELSE "cb_finally"]
    /\ UNCHANGED <<call, msg, index, rtcLocals, message, cbLocals, shared>>

\* Mutant of PutSubmission: the message is acknowledged once the record is
\* updated, before the notification.
PutSubmissionThenAck(w) ==
    /\ pc[w] = "cb_put"
    /\ \E r \in HttpResults :
         obs' = [obs EXCEPT ![w].puts = @ + 1, ![w].acks = @ + 1,
                            ![w].putResult = IF r = "ok" THEN "ok" ELSE "failed"]
    /\ pc' = [pc EXCEPT ![w] = "cb_post"]
    /\ UNCHANGED <<call, msg, index, rtcLocals, exc, message, cbLocals, shared>>

\* callback lines 216-223: requests.put and raise_for_status; every
\* RequestException is caught and printed.
PutSubmission(w) ==
    /\ pc[w] = "cb_put"
    /\ \E r \in HttpResults :
         obs' = [obs EXCEPT ![w].puts = @ + 1,
                            ![w].putResult = IF r = "ok" THEN "ok" ELSE "failed"]
    /\ pc' = [pc EXCEPT ![w] = "cb_post"]
    /\ UNCHANGED <<call, msg, index, rtcLocals, exc, message, cbLocals, shared>>

\* callback line 226 and send_results_to_submission_service lines 238-254:
\* requests.post; a status other than 200 is printed, every exception is
\* caught and printed.
SendResults(w) ==
    /\ pc[w] = "cb_post"
    /\ \E r \in HttpResults :
         obs' = [obs EXCEPT ![w].posts = @ + 1,
                            ![w].postResult = IF r = "ok" THEN "ok" ELSE "failed"]
    /\ pc' = [pc EXCEPT ![w] = "cb_finally"]
    /\ UNCHANGED <<call, msg, index, rtcLocals, exc, message, cbLocals, shared>>

\* Mutant of CallbackFinally: basic_ack is the last statement of the try
\* block instead of the finally clause.
CallbackAckInTry(w) ==
    /\ pc[w] = "cb_finally"
    /\ obs' = [obs EXCEPT ![w].acks = IF exc[w] = "none" THEN @ + 1 ELSE @]
    /\ pc' = [pc EXCEPT ![w] = "returned"]
    /\ UNCHANGED <<call, msg, index, rtcLocals, exc, message, cbLocals, shared>>

\* The exceptions the code and its libraries raise while a job is processed;
\* every one is a subclass of Exception.
ExceptionClasses ==
    {"JSONDecodeError", "AttributeError", "KeyError", "IndexError", "UnboundLocalError",
     "APIError", "ReadTimeout", "ContainerError", "RequestException"}

\* Mutant of Handles: callback has no "except Exception" clause.
HandlesNamedOnly(e) == e = "JSONDecodeError" \/ e = "KeyError"

\* callback's handlers (lines 228-233): except json.JSONDecodeError, except
\* KeyError, except Exception.
Handles(e) == e = "JSONDecodeError" \/ e = "KeyError" \/ e \in ExceptionClasses

\* callback lines 228-236: a handler prints the exception; the finally clause
\* acknowledges the message; callback returns to start_consuming, or the
\* exception no handler takes goes on into start_consuming ("raised"), which
\* catches KeyboardInterrupt only (lines 267-273) and ends the worker.
CallbackFinally(w) ==
    /\ pc[w] = "cb_finally"
    /\ obs' = [obs EXCEPT ![w].acks = @ + 1]
    /\ pc' = [pc EXCEPT ![w] = IF exc[w] = "none" \/ Handles(exc[w])
                                 THEN "returned" ELSE "raised"]
    /\ UNCHANGED <<call, msg, index, rtcLocals, exc, message, cbLocals, shared>>

\* One step of worker w, which takes its messages from M.
WorkerStep(w, M) ==
    \/ Deliver(w, M)
    \/ Consume(w)
    \/ ParseMessage(w)
    \/ ExecLoop(w)
    \/ RtcBegin(w)
    \/ RtcRun(w)
    \/ RtcWait(w)
    \/ RtcCheck(w)
    \/ RtcEval(w)
    \/ RtcFinally(w)
    \/ ExecRet(w)
    \/ Verdict(w)
    \/ PutSubmission(w)
    \/ SendResults(w)
    \/ CallbackFinally(w)

\* One worker, every message.
Next == WorkerStep(1, Messages)

Spec == Init /\ [][Next]_vars

\* NWorkers workers side by side, each in execute_user_code (line 190) with
\* a short job, up to the return of execute_user_code.
InitN ==
    /\ pc = [w \in Workers |-> "exec_loop"]
    /\ msg \in [Workers -> ShortMessages]
    /\ index = [w \in Workers |-> 0]
    /\ uid = [w \in Workers |-> 0]
    /\ script = [w \in Workers |-> NoName]
    /\ container = [w \in Workers |-> UnboundContainer]
    /\ clock = [w \in Workers |-> 0]
    /\ exc = [w \in Workers |-> "none"]
    /\ ret = [w \in Workers |-> NoRet]
    /\ message = [w \in Workers |-> NoRet]
    /\ result = [w \in Workers |-> NoResult]
    /\ passed = [w \in Workers |-> FALSE]
    /\ execution_time = [w \in Workers |-> UnboundTime]
    /\ files = {}
    /\ containers = {}
    /\ created = 0
    /\ used = {}
    /\ names = {}
    /\ nattempts = 0
    /\ obs = [w \in Workers |-> Obs0]
    /\ call = NoCall

NextN ==
    \E w \in Workers :
        \/ ExecLoop(w)
        \/ RtcBegin(w)
        \/ RtcRun(w)
        \/ RtcWait(w)
        \/ RtcCheck(w)
        \/ RtcEval(w)
        \/ RtcFinally(w)
        \/ ExecRet(w)

SpecN == InitN /\ [][NextN]_vars

\* ------------------------------------------- Evaluate, called on its own

\* Logs of a process that has exited with status 0: a first line of up to
\* MaxLen characters, then nothing, a line end, the harness's time line, or
\* another line without the marker.
LineAlphabet == {"4", ".", "0", " "}

RestOfLogs ==
    {<<>>, <<"\n">>, <<"\n">> \o ExecutionTimeMarker \o <<" ", "7", ".", "0", "0", "0", "0", "0", " ", "m", "s">> \o <<"\n">>,
     <<"\n", "4", "\n">>}

SampleLogs == {first \o rest : first \in SeqsUpTo(LineAlphabet, MaxLen), rest \in RestOfLogs}

SampleExpected ==
    {PyStr(<<"4">>), PyStr(<<"4", ".", "0">>), PyStr(<<" ", "4">>), PyStr(<<>>), PyInt(4),
     PyFloat(4, <<"0">>)}

InitEval ==
    /\ WorkersIdle
    /\ call \in {[fn |-> "Evaluate", logs |-> l, expected_output |-> e, done |-> FALSE,
                   value |-> [exc |-> "none", ret |-> NoRet]] :
                     l \in SampleLogs, e \in SampleExpected}

CallEvaluate ==
    /\ call.fn = "Evaluate"
    /\ ~call.done
    /\ call' = [call EXCEPT !.done = TRUE,
                            !.value = Evaluate(call.logs, call.expected_output, 1)]
    /\ UNCHANGED workerVars

NextEval == CallEvaluate

SpecEval == InitEval /\ [][NextEval]_vars

\* ----------------------------------- InputAssignments, called on its own

\* Inputs of a test case: a number of each kind, a list, true, null and every
\* string of up to MaxLen characters; one input, or two.
InputAlphabet == {"4", ".", "-", "e", " ", "n", "a"}

SampleInputs ==
    {PyInt(4), PyFloat(4, <<"2">>), PyList(<<4, 2>>), PyBool(TRUE), PyNone}
    \cup {PyStr(s) : s \in SeqsUpTo(InputAlphabet, MaxLen)}

SampleInputLists ==
    {<<>>} \cup {<<v>> : v \in SampleInputs}
    \cup {<<v, u>> : v \in SampleInputs, u \in {PyInt(4), PyStr(<<"a">>)}}

InitBind ==
    /\ WorkersIdle
    /\ call \in {[fn |-> "InputAssignments", test_case_inputs |-> t, done |-> FALSE,
                   value |-> <<>>] : t \in SampleInputLists}

CallInputAssignments ==
    /\ call.fn = "InputAssignments"
    /\ ~call.done
    /\ call' = [call EXCEPT !.done = TRUE,
                            !.value = InputAssignments(call.test_case_inputs)]
    /\ UNCHANGED workerVars

NextBind == CallInputAssignments

SpecBind == InitBind /\ [][NextBind]_vars

\* ------------------------------------------------------------------ claims

\* A message is malformed when it is not a JSON object or lacks a required
\* field (spec.md section 6: code, clientId, sessionId, testCases, and every
\* test case's inputs and expected_output).
IsMalformed(m) ==
    \/ m.json # "object"
    \/ ~m.hasCode \/ ~m.hasClientId \/ ~m.hasSessionId \/ ~m.hasTests
    \/ \E i \in DOMAIN m.tests : ~m.tests[i].hasInputs \/ ~m.tests[i].hasExpected

\* The job of worker w is one spec.md gives a verdict: a well-formed message
\* whose infrastructure calls all succeeded.
Judged(w) == msg[w].json = "object" /\ ~IsMalformed(msg[w]) /\ ~obs[w].infra

\* run_test_case has ended for the test case index[w] of a well-formed job,
\* and its sandbox had been launched.
AttemptOver(w) ==
    /\ pc[w] \in {"exec_ret", "cb_finally", "returned"}
    /\ Judged(w)
    /\ index[w] \in DOMAIN msg[w].tests
    /\ container[w].bound

\* The test cases that fail by mismatch, runtime error or timeout.
Failing(b) == b \in {"mismatch", "crash", "hang", "marked"}

\* The index of the first failing test case of t, all before it passing
\* (0 when there is none).
FirstFailure(t) ==
    IF \E k \in DOMAIN t : Failing(t[k].behav) /\ \A i \in 1..(k - 1) : t[i].behav = "pass"
      THEN CHOOSE k \in DOMAIN t :
               Failing(t[k].behav) /\ \A i \in 1..(k - 1) : t[i].behav = "pass"
      ELSE 0

\* C1: every message delivered to callback is acknowledged exactly once: not
\* before callback's end, once when callback has returned, on every path.
AckExactlyOnce ==
    \A w \in Workers :
        /\ obs[w].acks <= 1
        /\ pc[w] = "returned" => obs[w].acks = 1
        /\ pc[w] # "returned" => obs[w].acks = 0

\* C1 witness: callback has returned after an exception raised in the
\* pipeline, and the message is acknowledged.
AckAfterException ==
    \E w \in Workers :
        pc[w] = "returned" /\ exc[w] = "ReadTimeout" /\ obs[w].acks = 1

\* C2: when test case k is the first to fail (mismatch, runtime error or
\* timeout), exactly k test cases are attempted and the verdict reports the
\* failure at index k.
StopOnFirstFailure ==
    \A w \in Workers :
        (pc[w] = "returned" /\ Judged(w) /\ FirstFailure(msg[w].tests) > 0)
            => /\ obs[w].attempts = FirstFailure(msg[w].tests)
               /\ result[w].verdict = "failed"
               /\ result[w].index = FirstFailure(msg[w].tests)

\* C3: an attempt whose process never exits ends with a kill of the sandbox
\* and the timed-out failure, no later than the ceiling plus one poll interval.
TimeoutEnforced ==
    \A w \in Workers :
        (AttemptOver(w) /\ CurrentCase(w).behav = "hang")
            => /\ obs[w].kills = 1
               /\ ret[w] = Ret(FALSE, "timeout", 0, TimeoutMessage(Inputs))
               /\ exc[w] = "none"
               /\ clock[w] <= CONTAINER_TIMEOUT + PollInterval

\* C4: whenever run_test_case has ended, the sandbox of the attempt (if any)
\* is removed and the harness script file of the attempt no longer exists.
TeardownOnEveryExit ==
    \A w \in Workers :
        (/\ pc[w] \in {"exec_ret", "exec_loop", "cb_verdict", "cb_put", "cb_post",
                      "cb_finally", "returned"}
         /\ ~IsMalformed(msg[w])
         /\ script[w] # NoName)
            => /\ \A f \in files : f.name # script[w]
               /\ container[w].bound => container[w].id \notin containers

\* C5: an attempt whose process exits with a non-zero status ends as the
\* runtime-error failure, not as timed-out, and its sandbox is launched once.
RuntimeErrorOutcome ==
    \A w \in Workers :
        (AttemptOver(w) /\ CurrentCase(w).behav = "crash")
            => /\ ret[w] = Ret(FALSE, "error", 0, ErrorMessage)
               /\ exc[w] = "none"
               /\ obs[w].launches = obs[w].attempts

\* C6: every job whose test run ends in a verdict (all passed, or failed by
\* mismatch, runtime error or timeout) has had both outward reports attempted
\* when callback ends.
DispatchEveryVerdict ==
    \A w \in Workers :
        (/\ pc[w] = "returned"
         /\ Judged(w)
         /\ msg[w].tests # <<>>
         /\ \A i \in DOMAIN msg[w].tests :
                msg[w].tests[i].behav \in {"pass", "mismatch", "crash", "hang"})
            => obs[w].puts = 1 /\ obs[w].posts = 1

\* C7: a malformed message launches no sandbox, sends neither report and is
\* acknowledged.
MalformedDropped ==
    \A w \in Workers :
        (pc[w] = "returned" /\ IsMalformed(msg[w]))
            => /\ obs[w].sandboxes = 0
               /\ obs[w].puts = 0
               /\ obs[w].posts = 0
               /\ obs[w].acks = 1

\* C8: the evaluation of output without an "Execution Time:" line (empty
\* output included) raises nothing and yields a pass/fail result.
MissingMarkerTolerated ==
    \A w \in Workers :
        (/\ pc[w] = "rtc_finally"
         /\ obs[w].reads = 1
         /\ Judged(w)
         /\ ~In(ExecutionTimeMarker, Logs(CurrentCase(w).behav, index[w])))
            => exc[w] = "none" /\ ret[w].kind \in {"time", "mismatch"}

\* C9: each outward call is attempted at most once per job and no test case
\* is run again; once the record update has been attempted, whatever its
\* result, the notification is attempted too, and whatever the results the
\* message is acknowledged.
BestEffortDispatch ==
    \A w \in Workers :
        /\ obs[w].puts <= 1 /\ obs[w].posts <= 1
        /\ obs[w].attempts <= Len(msg[w].tests)
        /\ obs[w].launches <= obs[w].attempts
        /\ pc[w] = "cb_post" => obs[w].puts = 1 /\ obs[w].posts = 0
        /\ (pc[w] \in {"cb_finally", "returned"} /\ obs[w].puts = 1) => obs[w].posts = 1
        /\ (pc[w] = "returned" /\ obs[w].puts = 1) => obs[w].acks = 1

\* C9 witness: both outward calls failed, each attempted once, and the
\* message is acknowledged.
DispatchFailedAndAcked ==
    \E w \in Workers :
        /\ pc[w] = "returned"
        /\ obs[w].putResult = "failed" /\ obs[w].postResult = "failed"
        /\ obs[w].puts = 1 /\ obs[w].posts = 1 /\ obs[w].acks = 1

\* Worker w is inside run_test_case with its harness written.
InAttempt(w) == pc[w] \in {"rtc_run", "rtc_wait", "rtc_check", "rtc_eval", "rtc_finally"}

\* Worker w is inside run_test_case with its sandbox launched.
HasSandbox(w) == InAttempt(w) /\ container[w].bound

FirstLineOf(text) ==
    LET i == find(text, <<"\n">>) IN IF i = 0 THEN text ELSE SubSeq(text, 1, i - 1)

\* C11: exact-match semantics: a completed attempt passes if and only if the
\* first line of the captured output, trimmed, is the string form of the
\* expected output, trimmed; nothing is coerced.
ExactMatch ==
    (call.fn = "Evaluate" /\ call.done)
        => ((call.value.exc = "none" /\ call.value.ret.passed)
              <=> strip(FirstLineOf(call.logs)) = strip(str(call.expected_output)))

\* The numerals of the model's characters: a sign or none, digits with or
\* without a point and a fraction, an exponent or none.
DigitRuns == SeqsUpTo({c \in InputAlphabet : IsDigit(c)}, MaxLen) \ {<<>>}

Signs == {<<>>, <<"+">>, <<"-">>}

Mantissas ==
    DigitRuns
    \cup {i \o <<".">> \o f : i \in DigitRuns \cup {<<>>}, f \in DigitRuns}
    \cup {i \o <<".">> : i \in DigitRuns}

Exponents == {<<>>} \cup {<<"e">> \o sg \o d : sg \in Signs, d \in DigitRuns}

Numerals == {sg \o m \o ex : sg \in Signs, m \in Mantissas, ex \in Exponents}

\* A string is lexically numeric when it is a numeral, white space around it
\* apart.
LexicallyNumeric(s) == strip(s) \in Numerals

\* C12: input binding: the i-th input is bound to input<i>, in order; a
\* number, a list and a lexically numeric string are emitted bare, every other
\* string between quotes.
InputBinding ==
    (call.fn = "InputAssignments" /\ call.done /\ call.test_case_inputs # <<>>)
        => LET inputs == call.test_case_inputs
               lines == split(call.value, <<"\n">>) IN
           /\ Len(lines) = Len(inputs)
           /\ \A i \in DOMAIN inputs :
                LET v == inputs[i]
                    name == <<"i", "n", "p", "u", "t">> \o decimal(i) \o <<" ", "=", " ">> IN
                /\ v.type \in {"int", "float", "list"} => lines[i] = name \o str(v)
                /\ (v.type = "str" /\ LexicallyNumeric(v.s)) => lines[i] = name \o v.s
                /\ (v.type = "str" /\ ~LexicallyNumeric(v.s))
                      => lines[i] = name \o <<"'">> \o v.s \o <<"'">>

\* C13: no error raised while a job is processed leaves callback: callback
\* never ends by raising, and once the message is acknowledged callback has
\* returned, whatever was raised on the way, so the worker takes the next
\* message.
WorkerSurvival ==
    \A w \in Workers :
        /\ pc[w] # "raised"
        /\ obs[w].acks >= 1 => (pc[w] = "returned" /\ ENABLED Consume(w))

\* C13 witness: callback has returned after an error of the sandbox runtime
\* that only the last handler takes.
SurvivedRuntimeError ==
    \E w \in Workers :
        pc[w] = "returned" /\ exc[w] = "APIError" /\ obs[w].infra /\ obs[w].launches >= 1

\* C14: the acknowledgment is the last thing a job does: it is issued at
\* callback's end, when no attempt is under way, no sandbox of the job is
\* left and both outward calls are made or skipped, and after it the job
\* launches no sandbox and makes no outward call.
AckComesLast ==
    [][\A w \in Workers :
          /\ obs'[w].acks > obs[w].acks
                => /\ pc[w] = "cb_finally"
                   /\ container[w].bound => container[w].id \notin containers
                   /\ obs'[w].attempts = obs[w].attempts
                   /\ obs'[w].launches = obs[w].launches
                   /\ obs'[w].puts = obs[w].puts
                   /\ obs'[w].posts = obs[w].posts
          /\ obs[w].acks >= 1
                => /\ obs'[w].attempts <= obs[w].attempts
                   /\ obs'[w].launches <= obs[w].launches
                   /\ obs'[w].puts <= obs[w].puts
                   /\ obs'[w].posts <= obs[w].posts]_vars

\* C14 witness: a job of two attempts is acknowledged after both outward
\* calls.
AckedAfterDispatch ==
    \E w \in Workers :
        /\ obs[w].acks = 1
        /\ obs[w].attempts = 2
        /\ obs[w].puts = 1
        /\ obs[w].posts = 1

\* C15: test cases run one after the other: when the attempt for test case
\* i+1 starts, the outcome of test case i is known and its sandbox and its
\* script file are gone; so the worker has at most one sandbox and at most one
\* script file at any time.  (In Spec one worker runs: every container and
\* file is its own.)
SequentialTestCases ==
    /\ \A w \in Workers :
          (pc[w] = "rtc_begin" /\ index[w] > 1)
              => /\ message[w].passed
                 /\ container[w].id \notin containers
                 /\ \A f \in files : f.name # script[w]
    /\ Cardinality(containers) <= 1
    /\ Cardinality(files) <= 1

\* C16: a job whose test cases all pass, the job without test cases
\* included, ends execute_user_code in the passed verdict; and the passed
\* verdict is given only when every test case was attempted and passed.
PassedVerdict ==
    \A w \in Workers :
        /\ (/\ pc[w] = "returned"
            /\ Judged(w)
            /\ \A i \in DOMAIN msg[w].tests : msg[w].tests[i].behav = "pass")
              => result[w].verdict = "allpassed"
        /\ result[w].verdict = "allpassed"
              => /\ obs[w].attempts = Len(msg[w].tests)
                 /\ \A i \in DOMAIN msg[w].tests : msg[w].tests[i].behav \in {"pass", "slow"}

\* The execution time the sandbox of attempt t measures: t ms, as a count of
\* 10^-5 ms.
Measured(t) == t * 100000

\* C17: the execution time of the record update is that of the relevant test
\* case: the last one when the verdict is passed, the first failing one when
\* the verdict is a mismatch.
VerdictExecutionTime ==
    \A w \in Workers :
        obs[w].puts >= 1
            => /\ result[w].verdict = "allpassed"
                    => execution_time[w] = Millis(Measured(Len(msg[w].tests)))
               /\ (result[w].verdict = "failed" /\ result[w].msg.kind = "mismatch")
                    => /\ result[w].index = FirstFailure(msg[w].tests)
                       /\ execution_time[w] = Millis(Measured(result[w].index))

\* C18: an attempt that took the watchdog's timeout branch has not read the
\* sandbox output and ends as the failure whose message is the timeout text
\* with the inputs of the test case.
TimedOutBypassesParsing ==
    \A w \in Workers :
        (AttemptOver(w) /\ obs[w].kills >= 1)
            => /\ obs[w].reads = 0
               /\ exc[w] # "APIError"
               /\ ret[w] = Ret(FALSE, "timeout", 0, TimeoutMessage(Inputs))

\* C19: an attempt whose process exits with status 0 before the ceiling is
\* not killed and is evaluated as completed (its output is read), and no kill
\* is issued before the ceiling.
WatchdogNoMisreport ==
    \A w \in Workers :
        /\ (/\ AttemptOver(w)
            /\ CurrentCase(w).behav \in Behaviours \ {"crash", "hang"})
              => /\ obs[w].kills = 0
                 /\ obs[w].reads = 1
        /\ obs[w].kills >= 1 => clock[w] >= CONTAINER_TIMEOUT

\* Every test case of the job of w was attempted and passed.
AllAttemptedAndPassed(w) ==
    /\ obs[w].attempts = Len(msg[w].tests)
    /\ \A i \in DOMAIN msg[w].tests : msg[w].tests[i].behav \in {"pass", "slow"}

\* C20: the two outward reports agree: the record update says passed exactly
\* when the verdict is passed, every test case having passed, and exactly
\* when the result text of the notification says that all test cases passed.
ReportsAgree ==
    \A w \in Workers :
        obs[w].puts >= 1
            => /\ passed[w] <=> result[w].verdict = "allpassed"
               /\ passed[w] <=> AllAttemptedAndPassed(w)
               /\ passed[w] <=> In(AllPassedPrefix, result[w].text)

\* C20 witness: both reports are out for a job that failed at its second test
\* case, and the record update says not passed.
FailureReportedTwice ==
    \E w \in Workers :
        /\ obs[w].puts = 1
        /\ obs[w].posts = 1
        /\ result[w].verdict = "failed"
        /\ result[w].index = 2
        /\ ~passed[w]

====
